---- MODULE Spec2Model ----
(***************************************************************************)
(* Model of the analysis run of the Jira test-case generator               *)
(* (src/test-cases/src/App.jsx): the React state slots of App, the         *)
(* handleAnalyze handler with its two sequential generation calls, the     *)
(* PDF import handler and the two text inputs.                             *)
(*                                                                         *)
(* Each action is one synchronous segment of a handler: the code between   *)
(* two awaits runs to completion and its state updates are rendered        *)
(* before the next event is handled.                                       *)
(*                                                                         *)
(* Text that the code trims is a sequence of one-character strings; text   *)
(* that is only stored or shown is an atomic string.                       *)
(***************************************************************************)
EXTENDS Integers, Sequences, FiniteSets, TLC

\* ------------------------------------------------------------------ bounds
\* longest scenario list a generation response carries
MaxCases == 2

\* ------------------------------------------------------------ JSON values
\* A JSON value read from a response field: a string, a number, or a field
\* that is absent (undefined).
Str(s) == [t |-> "str", s |-> s, n |-> 0]
Num(n) == [t |-> "num", s |-> <<>>, n |-> n]
Undef == [t |-> "undef", s |-> <<>>, n |-> 0]

\* JavaScript truthiness of such a value
Truthy(v) == \/ v.t = "str" /\ v.s # <<>>
             \/ v.t = "num" /\ v.n # 0

\* v || ''
OrEmpty(v) == IF Truthy(v) THEN v ELSE Str(<<>>)

\* useState(null) / an array value
Null == [t |-> "null", l |-> <<>>]
Arr(l) == [t |-> "arr", l |-> l]

\* ------------------------------------------------------------------- trim
IsSpace(c) == c \in {" ", "\n"}

RECURSIVE TrimStart(_)
TrimStart(s) == IF s = <<>> THEN s
                ELSE IF IsSpace(Head(s)) THEN TrimStart(Tail(s)) ELSE s

RECURSIVE TrimEnd(_)
TrimEnd(s) == IF s = <<>> THEN s
              ELSE IF IsSpace(s[Len(s)]) THEN TrimEnd(SubSeq(s, 1, Len(s) - 1))
              ELSE s

\* String.prototype.trim
trim(s) == TrimEnd(TrimStart(s))

\* --------------------------------------------------------- priority sort
\* keys every object literal inherits from Object.prototype
InheritedKeys == {"constructor", "toString", "__proto__"}

\* priorityOrder[label] || 4, where priorityOrder is an object literal: an own
\* key gives its number, an inherited key gives the inherited function or
\* object (truthy, not a number), any other key gives undefined and so 4. A
\* missing priority field is looked up under the key "undefined".
priorityOrder(label) ==
    CASE label \in {"Alta", "High"} -> [num |-> TRUE, n |-> 1]
      [] label \in {"Media", "Medium"} -> [num |-> TRUE, n |-> 2]
      [] label \in {"Baja", "Low"} -> [num |-> TRUE, n |-> 3]
      [] label \in InheritedKeys -> [num |-> FALSE, n |-> 0]
      [] OTHER -> [num |-> TRUE, n |-> 4]

\* a comparator that puts the later of two equally ranked records first
CompareTiesReversed(a, b) ==
    LET pa == priorityOrder(a.priority)
        pb == priorityOrder(b.priority)
    IN  IF pa.num /\ pb.num THEN (IF pa.n <= pb.n THEN -1 ELSE 1) ELSE 0

\* (a, b) => priorityA - priorityB; a difference that is NaN counts as 0
Compare(a, b) ==
    LET pa == priorityOrder(a.priority)
        pb == priorityOrder(b.priority)
    IN  IF pa.num /\ pb.num THEN pa.n - pb.n ELSE 0

Reverse(s) == [i \in 1..Len(s) |-> s[Len(s) + 1 - i]]

\* Array.prototype.sort as V8 runs it on fewer than 64 elements: the leading
\* run is found (a strictly descending one is reversed), then every later
\* element is put in place by binary insertion.
RECURSIVE RunEnd(_, _, _)
RunEnd(a, i, descending) ==
    IF i > Len(a) THEN i - 1
    ELSE LET order == Compare(a[i], a[i - 1])
         IN  IF (descending /\ order >= 0) \/ (~descending /\ order < 0)
             THEN i - 1
             ELSE RunEnd(a, i + 1, descending)

CountRun(a) == IF Len(a) < 2 THEN Len(a) ELSE RunEnd(a, 3, Compare(a[2], a[1]) < 0)

MakeRun(a) ==
    IF Len(a) >= 2 /\ Compare(a[2], a[1]) < 0
    THEN Reverse(SubSeq(a, 1, CountRun(a))) \o SubSeq(a, CountRun(a) + 1, Len(a))
    ELSE a

RECURSIVE BinaryPosition(_, _, _, _)
BinaryPosition(a, pivot, left, right) ==
    IF left >= right THEN left
    ELSE LET mid == left + ((right - left) \div 2)
         IN  IF Compare(pivot, a[mid]) < 0
             THEN BinaryPosition(a, pivot, left, mid)
             ELSE BinaryPosition(a, pivot, mid + 1, right)

RECURSIVE BinaryInsertionSort(_, _)
BinaryInsertionSort(a, start) ==
    IF start > Len(a) THEN a
    ELSE LET pivot == a[start]
             pos == BinaryPosition(a, pivot, 1, start)
         IN  BinaryInsertionSort(
                 SubSeq(a, 1, pos - 1) \o <<pivot>> \o SubSeq(a, pos, start - 1)
                     \o SubSeq(a, start + 1, Len(a)),
                 start + 1)

TimSort(cases) ==
    IF Len(cases) < 2 THEN cases
    ELSE BinaryInsertionSort(MakeRun(cases), CountRun(cases) + 1)

\* Array.prototype.sort as a merge sort, the strategy of the other engines
RECURSIVE Merge(_, _)
Merge(l, r) ==
    IF l = <<>> THEN r
    ELSE IF r = <<>> THEN l
    ELSE IF Compare(Head(l), Head(r)) <= 0
         THEN <<Head(l)>> \o Merge(Tail(l), r)
         ELSE <<Head(r)>> \o Merge(l, Tail(r))

RECURSIVE MergeSort(_)
MergeSort(cases) ==
    IF Len(cases) < 2 THEN cases
    ELSE LET half == Len(cases) \div 2
         IN  Merge(MergeSort(SubSeq(cases, 1, half)),
                   MergeSort(SubSeq(cases, half + 1, Len(cases))))

\* The engines agree whenever the comparator is consistent on the list (the
\* language requires a stable sort); when it is not, the order is
\* implementation-defined and each engine gives its own.
SortEngines == {"v8", "merge"}
ArraySort(engine, cases) ==
    IF engine = "v8" THEN TimSort(cases) ELSE MergeSort(cases)

\* [...cases].sort((a, b) => priorityA - priorityB) on a copy of the list
sortTestCasesByPriority(cases) == ArraySort("v8", cases)

\* ------------------------------------------------------ getJiraIdFromUrl
\* A link is written as a sequence of tokens: a scheme with its colon, "//",
\* "/", "?", a blank, or a run of other characters. The texts considered are
\* those in which a scheme token, if there is one, is the first token after
\* the surrounding blanks, and in which path segments need no normalisation.
Schemes == {"https:"}

\* the longest prefix of s holding none of the stop tokens
RECURSIVE UpTo(_, _)
UpTo(s, stops) ==
    IF s = <<>> \/ Head(s) \in stops THEN <<>>
    ELSE <<Head(s)>> \o UpTo(Tail(s), stops)

Authority(u) == UpTo(SubSeq(u, 3, Len(u)), {"/", "?"})

\* new URL(url) succeeds: scheme, "//" and a host without blanks (the parser
\* first strips the blanks around the text)
ParsesAsUrl(url) ==
    LET u == trim(url)
    IN  /\ Len(u) >= 3
        /\ u[1] \in Schemes
        /\ u[2] = "//"
        /\ Authority(u) # <<>>
        /\ \A i \in 1..Len(Authority(u)) : ~IsSpace(Authority(u)[i])

\* urlObj.pathname: what follows the host up to the query, "/" when empty
pathname(url) ==
    LET u == trim(url)
        p == UpTo(SubSeq(u, 3 + Len(Authority(u)), Len(u)), {"?"})
    IN  IF p = <<>> THEN <<"/">> ELSE p

\* String.prototype.split('/'): the pieces between the slashes, empty ones kept
RECURSIVE split(_)
split(s) ==
    IF s = <<>> THEN << <<>> >>
    ELSE LET rest == split(Tail(s))
         IN  IF Head(s) = "/" THEN << <<>> >> \o rest
             ELSE << <<Head(s)>> \o Head(rest) >> \o Tail(rest)

IsIdMarker(segment) == segment = <<"browse">> \/ segment = <<"ticket">>

\* the index of the last marker segment at or after i, 0 when there is none
findLastIndex(segments, i) ==
    LET found == {j \in i..Len(segments) : IsIdMarker(segments[j])}
    IN  IF found = {} THEN 0 ELSE CHOOSE j \in found : \A k \in found : k <= j

\* pathSegments.findIndex(...): the index of the first marker segment, counted
\* from 1, 0 when there is none (-1 in the code)
RECURSIVE findIndex(_, _)
findIndex(segments, i) ==
    IF i > Len(segments) THEN 0
    ELSE IF IsIdMarker(segments[i]) THEN i
    ELSE findIndex(segments, i + 1)

\* the catch returns '' when new URL throws; nothing else in the body can throw
getJiraIdFromUrl(url) ==
    IF ~ParsesAsUrl(url) THEN <<>>
    ELSE LET pathSegments == split(pathname(url))
             idIndex == findIndex(pathSegments, 1)
         IN  IF idIndex # 0 /\ idIndex + 1 <= Len(pathSegments)
             THEN pathSegments[idIndex + 1]
             ELSE pathSegments[Len(pathSegments)]

\* ------------------------------------------------------- user-facing text
MsgLinkMissing == "El enlace de Jira es obligatorio para el analisis de impacto."
MsgDescMissing == "Por favor, ingresa la descripcion de la historia o epica de Jira."
MsgEmpty1 == "No se pudieron generar los datos iniciales. La respuesta de la IA no fue la esperada o esta vacia."
MsgEmpty2 == "No se pudieron generar casos de prueba de regresion Gherkin. La respuesta de la IA no fue la esperada o esta vacia."
MsgNotArray2 == "La segunda respuesta de la IA no es un formato de arreglo JSON valido."
MsgPdfInvalid == "Por favor, selecciona un archivo PDF valido."
MsgPdfRead == "Error al leer el PDF: decode. Asegurate de que es un PDF de texto seleccionable."
Fallback1 == "Error desconocido en la primera llamada a la API."
Fallback2 == "Error desconocido en la segunda llamada a la API."

MsgParse1(detail) == "Error al parsear la primera respuesta JSON: " \o detail
MsgParse2(detail) == "Error al parsear la segunda respuesta JSON: " \o detail
MsgGeneral(detail) == "Ocurrio un error: " \o detail \o ". Por favor, intentalo de nuevo."
\* `Error ${status}: ${errorData.message || fallback}`
HttpError(status, message, fallback) ==
    "Error " \o ToString(status) \o ": " \o (IF message # "" THEN message ELSE fallback)

\* ------------------------------------------------------ inputs and replies
\* values typed into the link field and the description field
LinkInputs == {<<>>, <<" ">>, <<"u">>}
ContentInputs == {<<>>, <<"\n">>, <<"d">>}
\* text extracted from an uploaded PDF (a page without text items gives "\n")
PdfTexts == {<<"\n">>, <<"d">>}

\* priority labels the generation endpoint puts on a scenario: one the table
\* ranks and one it does not
PayloadLabels == {"Alta", ""}

\* the literal the prompts ask every scenario title to begin with
ScenarioPrefix == "Validar "

\* the scenario title that comes with a label: the record that follows the
\* prompt in its priority follows it in its title, the other does in neither
PayloadScenario(label) ==
    IF label = "Alta" THEN <<ScenarioPrefix, "x">> ELSE <<"x">>
HttpStatuses == {500}
ServiceMessages == {"", "quota exceeded"}

RECURSIVE ListsUpTo(_)
ListsUpTo(n) ==
    IF n = 0 THEN {<<>>}
    ELSE LET shorter == ListsUpTo(n - 1)
         IN shorter \cup
            {Append(l, [id |-> n, priority |-> p, scenario |-> PayloadScenario(p)]) :
                l \in {x \in shorter : Len(x) = n - 1}, p \in PayloadLabels}

\* scenario lists of a payload; id stands for the record's other text fields
ScenarioLists == ListsUpTo(MaxCases)

\* the value of the testCases field: absent, not iterable, or an array
TestCasesFields ==
    {[t |-> "undef", l |-> <<>>], [t |-> "num", l |-> <<>>]}
        \cup {Arr(l) : l \in ScenarioLists}
ImpactsFields == {Undef, Str(<<"i">>)}
RegressionFields == {Undef, Str(<<>>), Str(<<" ">>), Str(<<"r">>), Num(5)}

\* what JSON.parse makes of the text payload of the first call
Parsed1 ==
    {[t |-> "syntax"], [t |-> "null"], [t |-> "other"]}
        \cup {[t |-> "obj", testCases |-> tc, impacts |-> im, regressionTests |-> rt] :
                tc \in TestCasesFields, im \in ImpactsFields, rt \in RegressionFields}

\* what JSON.parse makes of the text payload of the second call
Parsed2 ==
    {[t |-> "syntax"], [t |-> "obj"]} \cup {Arr(l) : l \in ScenarioLists}

\* what a fetch can come back with: a rejection, a non-success status whose
\* body is JSON with or without a message or is not JSON, a success whose body
\* is not JSON, a success envelope without text, a success envelope with text
Transport ==
    {[kind |-> "reject"], [kind |-> "badbody"], [kind |-> "notext"]}
        \cup {[kind |-> "http", status |-> st, body |-> "json", message |-> m] :
                st \in HttpStatuses, m \in ServiceMessages}
        \cup {[kind |-> "http", status |-> st, body |-> "notjson", message |-> ""] :
                st \in HttpStatuses}
Responses1 == Transport \cup {[kind |-> "text", parsed |-> p] : p \in Parsed1}
Responses2 == Transport \cup {[kind |-> "text", parsed |-> p] : p \in Parsed2}

NoResponse == [kind |-> "none"]

\* ------------------------------------------------------------------ state
VARIABLES
    jiraLink,                    \* the link field
    jiraContent,                 \* the description field
    testCases,                   \* Null or Arr(sorted scenarios of stage 1)
    impacts,                     \* impacts text
    regressionTestSuggestions,   \* regression suggestions of stage 1
    regressionGherkinTestCases,  \* Null or Arr(sorted scenarios of stage 2)
    isLoading,                   \* analysis spinner; disables the analyze button
    isPdfLoading,                \* PDF spinner; disables the PDF button
    errorMessage,                \* the single error slot
    runs,                        \* invocations of handleAnalyze, oldest first
    call                         \* a helper function under test: argument, result

appVars == <<jiraLink, jiraContent, testCases, impacts, regressionTestSuggestions,
             regressionGherkinTestCases, isLoading, isPdfLoading, errorMessage, runs>>

vars == <<jiraLink, jiraContent, testCases, impacts, regressionTestSuggestions,
          regressionGherkinTestCases, isLoading, isPdfLoading, errorMessage, runs,
          call>>

\* no helper function is under test
NoCall == [fn |-> "none"]

results == <<testCases, impacts, regressionTestSuggestions, regressionGherkinTestCases>>

\* One invocation of handleAnalyze: where it waits or how it left (pc), the
\* link its closure captured, the fetches it has outstanding (pending), the
\* fetches it has issued per stage, and its locals responseFirstCall /
\* responseSecondCall once received.
Awaiting == {"await1", "await2"}
Terminal == {"Complete", "Errored"}

AppInit ==
    /\ jiraLink = <<>>
    /\ jiraContent = <<>>
    /\ testCases = Null
    /\ impacts = Str(<<>>)
    /\ regressionTestSuggestions = Str(<<>>)
    /\ regressionGherkinTestCases = Null
    /\ isLoading = FALSE
    /\ isPdfLoading = FALSE
    /\ errorMessage = ""
    /\ runs = <<>>

Init == AppInit /\ call = NoCall

\* ------------------------------------------------------------ text fields
\* onChange of the link input
SetJiraLink ==
    \E v \in LinkInputs :
        /\ jiraLink' = v
        /\ UNCHANGED <<jiraContent, results, isLoading, isPdfLoading, errorMessage, runs, call>>

\* onChange of the description textarea
SetJiraContent ==
    \E v \in ContentInputs :
        /\ jiraContent' = v
        /\ UNCHANGED <<jiraLink, results, isLoading, isPdfLoading, errorMessage, runs, call>>

\* ------------------------------------------------------- handler effects
\* The state slots handleAnalyze writes, as one record, and their assignment.
ui == [testCases |-> testCases,
       impacts |-> impacts,
       regressionTestSuggestions |-> regressionTestSuggestions,
       regressionGherkinTestCases |-> regressionGherkinTestCases,
       errorMessage |-> errorMessage,
       isLoading |-> isLoading]

Render(st) ==
    /\ testCases' = st.testCases
    /\ impacts' = st.impacts
    /\ regressionTestSuggestions' = st.regressionTestSuggestions
    /\ regressionGherkinTestCases' = st.regressionGherkinTestCases
    /\ errorMessage' = st.errorMessage
    /\ isLoading' = st.isLoading

\* a reset that clears only the error slot
ClearPreviousKeepingResults(st) ==
    [st EXCEPT !.errorMessage = ""]

\* a reset that forgets the converted regression scenarios
ClearPreviousKeepingRegression(st) ==
    [st EXCEPT !.testCases = Null,
               !.impacts = Str(<<>>),
               !.regressionTestSuggestions = Str(<<>>),
               !.errorMessage = ""]

\* "Clear previous results and errors"
ClearPrevious(st) ==
    [st EXCEPT !.testCases = Null,
               !.impacts = Str(<<>>),
               !.regressionTestSuggestions = Str(<<>>),
               !.regressionGherkinTestCases = Null,
               !.errorMessage = ""]

\* input checks that compare without trimming
ValidationErrorUntrimmed(link, content) ==
    IF link = <<>> THEN MsgLinkMissing
    ELSE IF content = <<>> THEN MsgDescMissing
    ELSE ""

\* the two input checks: the message to show, or "" when both pass
ValidationError(link, content) ==
    IF trim(link) = <<>> THEN MsgLinkMissing
    ELSE IF trim(content) = <<>> THEN MsgDescMissing
    ELSE ""

\* a button that is never disabled
AnalyzeAlwaysEnabled == TRUE

\* the analyze button is rendered with disabled={isLoading}
AnalyzeEnabled == ~isLoading

\* an invocation that issues both fetches at once
NewRunBothCalls(link) ==
    [pc |-> "await1", link |-> link, pending |-> {1, 2}, calls1 |-> 1, calls2 |-> 1,
     r1 |-> NoResponse, r2 |-> NoResponse]

\* the invocation after both checks passed and the first fetch was issued
NewRun(link) ==
    [pc |-> "await1", link |-> link, pending |-> {1}, calls1 |-> 1, calls2 |-> 0,
     r1 |-> NoResponse, r2 |-> NoResponse]

\* the invocation that returned from a failed input check
RejectedRun(link) ==
    [pc |-> "Errored", link |-> link, pending |-> {}, calls1 |-> 0, calls2 |-> 0,
     r1 |-> NoResponse, r2 |-> NoResponse]

\* a catch block that also throws the results away
CaughtDiscarding(st, detail) ==
    [st EXCEPT !.errorMessage = MsgGeneral(detail), !.isLoading = FALSE,
               !.testCases = Null, !.impacts = Str(<<>>),
               !.regressionTestSuggestions = Str(<<>>)]

\* a catch block with no finally block behind it
CaughtNoFinally(st, detail) ==
    [st EXCEPT !.errorMessage = MsgGeneral(detail)]

\* the catch block followed by the finally block
Caught(st, detail) ==
    [st EXCEPT !.errorMessage = MsgGeneral(detail), !.isLoading = FALSE]

\* what reaches the catch block before the envelope is looked at, or "" if
\* nothing is thrown: fetch rejects, response.json() rejects, or the code
\* throws on a non-success status
Thrown(r, fallback) ==
    CASE r.kind = "reject" -> "Failed to fetch"
      [] r.kind = "badbody" -> "Unexpected token"
      [] r.kind = "http" ->
            IF r.body = "notjson" THEN "Unexpected token"
            ELSE HttpError(r.status, r.message, fallback)
      [] OTHER -> ""

\* the fields read from the parsed first payload; a scalar or an array has none
Fields1(p) ==
    IF p.t = "obj" THEN p
    ELSE [t |-> "obj", testCases |-> [t |-> "undef", l |-> <<>>],
          impacts |-> Undef, regressionTests |-> Undef]

\* an else branch that reports nothing
EmptyResponse1Silent(st) ==
    [exit |-> "Complete", st |-> [st EXCEPT !.isLoading = FALSE]]

\* first envelope without text: message, setIsLoading(false), return
EmptyResponse1(st) ==
    [exit |-> "Errored",
     st |-> [st EXCEPT !.errorMessage = MsgEmpty1, !.isLoading = FALSE]]

\* an inner catch that returns with the spinner still on
ParseError1KeepsLoading(st, detail) ==
    [exit |-> "Errored", st |-> [st EXCEPT !.errorMessage = MsgParse1(detail)]]

\* inner catch of the first call: message, setIsLoading(false), return
ParseError1(st, detail) ==
    [exit |-> "Errored",
     st |-> [st EXCEPT !.errorMessage = MsgParse1(detail), !.isLoading = FALSE]]

\* whether JSON.parse or the statement that sorts testCases throws: the text is
\* not JSON, a property of null is read, or a non-iterable is spread
ParseThrows1(p) ==
    CASE p.t = "syntax" -> "SyntaxError"
      [] p.t = "null" -> "TypeError"
      [] Fields1(p).testCases.t = "num" -> "TypeError"
      [] OTHER -> ""

\* the three setters called with the parsed first payload
Store1(f, st) ==
    [st EXCEPT !.testCases = Arr(sortTestCasesByPriority(f.testCases.l)),
               !.impacts = OrEmpty(f.impacts),
               !.regressionTestSuggestions = OrEmpty(f.regressionTests)]

\* a condition that does not trim
Stage2DecisionNoTrim(rt) ==
    IF ~Truthy(rt) THEN "skip"
    ELSE IF rt.t # "str" THEN "throw"
    ELSE "call"

\* parsedFirstJson.regressionTests && parsedFirstJson.regressionTests.trim():
\* the block is skipped, entered, or the call of trim throws on a non-string
Stage2Decision(rt) ==
    IF ~Truthy(rt) THEN "skip"
    ELSE IF rt.t # "str" THEN "throw"
    ELSE IF trim(rt.s) # <<>> THEN "call"
    ELSE "skip"

\* Handling of the first response (from `await fetch` to the second fetch or
\* to the end of the handler). exit says how the segment ends: "Stage2" (second
\* fetch issued), "Complete" or "Errored".
Stage1Effect(r, st) ==
    IF Thrown(r, Fallback1) # "" THEN
        [exit |-> "Errored", st |-> Caught(st, Thrown(r, Fallback1))]
    ELSE IF r.kind = "notext" THEN EmptyResponse1(st)
    ELSE IF ParseThrows1(r.parsed) # "" THEN ParseError1(st, ParseThrows1(r.parsed))
    ELSE
        LET f == Fields1(r.parsed)
            stored == Store1(f, st)
            decision == Stage2Decision(f.regressionTests)
        IN  CASE decision = "call" -> [exit |-> "Stage2", st |-> stored]
              [] decision = "throw" ->
                    \* regressionTests.trim is not a function
                    [exit |-> "Errored", st |-> Caught(stored, "TypeError")]
              [] OTHER ->
                    [exit |-> "Complete", st |-> [stored EXCEPT !.isLoading = FALSE]]

\* second envelope without text: message, then the finally block
EmptyResponse2(st) ==
    [exit |-> "Errored",
     st |-> [st EXCEPT !.errorMessage = MsgEmpty2, !.isLoading = FALSE]]

\* inner catch of the second call: message, then the finally block
ParseError2(st, detail) ==
    [exit |-> "Errored",
     st |-> [st EXCEPT !.errorMessage = MsgParse2(detail), !.isLoading = FALSE]]

\* a handler that stores whatever was parsed
NotArray2Stored(st) ==
    [exit |-> "Complete",
     st |-> [st EXCEPT !.regressionGherkinTestCases = Arr(<<>>), !.isLoading = FALSE]]

\* Array.isArray fails: message, then the finally block
NotArray2(st) ==
    [exit |-> "Errored",
     st |-> [st EXCEPT !.errorMessage = MsgNotArray2, !.isLoading = FALSE]]

\* a handler that stores the parsed array only when it has items
Store2SkippingEmpty(l, st) ==
    [exit |-> "Complete",
     st |-> [st EXCEPT !.regressionGherkinTestCases =
                           IF l = <<>> THEN Null ELSE Arr(sortTestCasesByPriority(l)),
                       !.isLoading = FALSE]]

\* the parsed array is sorted and stored, then the finally block
Store2(l, st) ==
    [exit |-> "Complete",
     st |-> [st EXCEPT !.regressionGherkinTestCases = Arr(sortTestCasesByPriority(l)),
                       !.isLoading = FALSE]]

\* Handling of the second response, to the end of the handler.
Stage2Effect(r, st) ==
    IF Thrown(r, Fallback2) # "" THEN
        [exit |-> "Errored", st |-> Caught(st, Thrown(r, Fallback2))]
    ELSE IF r.kind = "notext" THEN EmptyResponse2(st)
    ELSE IF r.parsed.t = "syntax" THEN ParseError2(st, "SyntaxError")
    ELSE IF r.parsed.t = "arr" THEN Store2(r.parsed.l, st)
    ELSE NotArray2(st)

\* ---------------------------------------------------------- handleAnalyze
\* closures of finished invocations are dropped when a new one is created
Live(rs) == SelectSeq(rs, LAMBDA r : r.pc \in Awaiting)

\* Click on the analyze button: reset, input checks, first fetch.
Analyze ==
    /\ AnalyzeEnabled
    /\ LET err == ValidationError(jiraLink, jiraContent)
           cleared == ClearPrevious(ui)
       IN  IF err # "" THEN
               /\ Render([cleared EXCEPT !.errorMessage = err])
               /\ runs' = Append(Live(runs), RejectedRun(jiraLink))
           ELSE
               /\ Render([cleared EXCEPT !.isLoading = TRUE])
               /\ runs' = Append(Live(runs), NewRun(jiraLink))
    /\ UNCHANGED <<jiraLink, jiraContent, isPdfLoading, call>>

\* The first fetch of invocation i settles.
Stage1Response ==
    \E i \in 1..Len(runs), r \in Responses1 :
        /\ runs[i].pc = "await1"
        /\ 1 \in runs[i].pending
        /\ LET e == Stage1Effect(r, ui)
           IN  /\ Render(e.st)
               /\ runs' = [runs EXCEPT ![i] =
                    IF e.exit = "Stage2"
                    THEN [@ EXCEPT !.pc = "await2", !.r1 = r,
                                   !.pending = (@ \ {1}) \cup {2},
                                   !.calls2 = @ + 1]
                    ELSE [@ EXCEPT !.pc = e.exit, !.r1 = r, !.pending = @ \ {1}]]
        /\ UNCHANGED <<jiraLink, jiraContent, isPdfLoading, call>>

\* The second fetch of invocation i settles.
Stage2Response ==
    \E i \in 1..Len(runs), r \in Responses2 :
        /\ runs[i].pc = "await2"
        /\ 2 \in runs[i].pending
        /\ LET e == Stage2Effect(r, ui)
           IN  /\ Render(e.st)
               /\ runs' = [runs EXCEPT ![i] =
                    [@ EXCEPT !.pc = e.exit, !.r2 = r, !.pending = @ \ {2}]]
        /\ UNCHANGED <<jiraLink, jiraContent, isPdfLoading, call>>

\* --------------------------------------------------------- handlePdfUpload
\* an import that also throws away the scenarios on screen
PdfUploadClearingScenarios ==
    \E type \in {"application/pdf", "text/plain"} :
        /\ ~isPdfLoading
        /\ IF type # "application/pdf"
           THEN /\ errorMessage' = MsgPdfInvalid
                /\ UNCHANGED <<jiraContent, isPdfLoading, testCases>>
           ELSE /\ isPdfLoading' = TRUE
                /\ errorMessage' = ""
                /\ jiraContent' = <<>>
                /\ testCases' = Null
        /\ UNCHANGED <<jiraLink, impacts, regressionTestSuggestions,
                       regressionGherkinTestCases, isLoading, runs, call>>

\* A file is chosen: a non-PDF is refused, a PDF starts the extraction.
PdfUpload ==
    \E type \in {"application/pdf", "text/plain"} :
        /\ ~isPdfLoading
        /\ IF type # "application/pdf"
           THEN /\ errorMessage' = MsgPdfInvalid
                /\ UNCHANGED <<jiraContent, isPdfLoading>>
           ELSE /\ isPdfLoading' = TRUE
                /\ errorMessage' = ""
                /\ jiraContent' = <<>>
        /\ UNCHANGED <<jiraLink, results, isLoading, runs, call>>

\* The extraction ends with the document's text or with a read error.
PdfDone ==
    /\ isPdfLoading
    /\ \/ \E fullText \in PdfTexts :
            /\ jiraContent' = fullText
            /\ UNCHANGED errorMessage
       \/ /\ errorMessage' = MsgPdfRead
          /\ UNCHANGED jiraContent
    /\ isPdfLoading' = FALSE
    /\ UNCHANGED <<jiraLink, results, isLoading, runs, call>>

\* ---------------------------------------------------------- specification
Next ==
    \/ SetJiraLink
    \/ SetJiraContent
    \/ Analyze
    \/ Stage1Response
    \/ Stage2Response
    \/ PdfUpload
    \/ PdfDone

Spec == Init /\ [][Next]_vars

TypeOK ==
    /\ jiraLink \in LinkInputs
    /\ isLoading \in BOOLEAN
    /\ isPdfLoading \in BOOLEAN
    /\ testCases.t \in {"null", "arr"}
    /\ regressionGherkinTestCases.t \in {"null", "arr"}

\* the specification with the scheduling the environment guarantees: a fetch
\* that was issued eventually resolves or rejects
FairSpec == Spec /\ WF_vars(Stage1Response) /\ WF_vars(Stage2Response)

\* ----------------------------------------------------- claim vocabulary
RunIds == 1..Len(runs)

\* messages only handlePdfUpload writes
PdfMessages == {MsgPdfInvalid, MsgPdfRead}

\* invocation i leaves await1 / await2 in this step
Leaves1(i) == i <= Len(runs') /\ runs[i].pc = "await1" /\ runs'[i].pc # "await1"
Leaves2(i) == i <= Len(runs') /\ runs[i].pc = "await2" /\ runs'[i].pc # "await2"

\* the failure kinds of a generation call
TransportFailed(r) == r.kind \in {"reject", "http", "badbody"}
MissingText(r) == r.kind = "notext"
Unparseable(r) == r.kind = "text" /\ r.parsed.t = "syntax"
NotAnArray(r) == r.kind = "text" /\ r.parsed.t \notin {"syntax", "arr"}

\* a first payload the code could store: it parsed and its testCases, if
\* present, is an array
Stored1(r) ==
    /\ r.kind = "text"
    /\ r.parsed.t \in {"obj", "other"}
    /\ Fields1(r.parsed).testCases.t \in {"undef", "arr"}

\* regressionTests of a first payload is absent, empty or whitespace-only
BlankSuggestions(r) ==
    LET rt == Fields1(r.parsed).regressionTests
    IN  rt.t = "undef" \/ (rt.t = "str" /\ trim(rt.s) = <<>>)

\* the three values stage 1 stores for payload r
StageOneValues(r) ==
    LET f == Fields1(r.parsed)
    IN  <<Arr(sortTestCasesByPriority(f.testCases.l)), OrEmpty(f.impacts),
          OrEmpty(f.regressionTests)>>

NoResults ==
    /\ testCases = Null
    /\ impacts = Str(<<>>)
    /\ regressionTestSuggestions = Str(<<>>)
    /\ regressionGherkinTestCases = Null

\* ------------------------------------------------------------------ claims

\* C1: a click with a blank link ends the run at once in Errored with the
\* link-missing message; otherwise a blank description ends it in Errored with
\* the different description-missing message; in both cases the run has issued
\* no network call and isLoading is not set.
C1_ValidationStops ==
    [][ (Analyze /\ (trim(jiraLink) = <<>> \/ trim(jiraContent) = <<>>)) =>
            /\ MsgLinkMissing # MsgDescMissing
            /\ errorMessage' =
                 (IF trim(jiraLink) = <<>> THEN MsgLinkMissing ELSE MsgDescMissing)
            /\ ~isLoading'
            /\ LET run == runs'[Len(runs')]
               IN  /\ run.pc = "Errored"
                   /\ run.calls1 = 0 /\ run.calls2 = 0 /\ run.pending = {} ]_vars

C1_Witness ==
    /\ runs # <<>>
    /\ runs[Len(runs)].pc = "Errored"
    /\ runs[Len(runs)].calls1 = 0
    /\ trim(jiraLink) # <<>>
    /\ trim(jiraContent) = <<>>
    /\ errorMessage = MsgDescMissing
    /\ ~isLoading

\* C2: when the first call succeeds with a payload whose regressionTests is
\* absent, empty or whitespace-only, the run ends in Complete in that very
\* step, writes no error message (the slot holds nothing handleAnalyze
\* wrote), leaves regressionGherkinTestCases null and has issued exactly one
\* network call.
C2_SkipStage2 ==
    [][ \A i \in RunIds :
          (Leaves1(i) /\ Stored1(runs'[i].r1) /\ BlankSuggestions(runs'[i].r1)) =>
            /\ runs'[i].pc = "Complete"
            /\ errorMessage' = errorMessage
            /\ errorMessage' \in {""} \cup PdfMessages
            /\ regressionGherkinTestCases' = Null
            /\ runs'[i].calls1 + runs'[i].calls2 = 1
            /\ runs'[i].pending = {}
            /\ ~isLoading' ]_vars

C2_Witness ==
    \E i \in RunIds :
        /\ runs[i].pc = "Complete"
        /\ Stored1(runs[i].r1)
        /\ Fields1(runs[i].r1.parsed).regressionTests = Str(<<" ">>)
        /\ testCases.t = "arr" /\ testCases.l # <<>>
        /\ regressionGherkinTestCases = Null
        /\ errorMessage = ""

\* C3: whatever way the second call fails (rejected fetch, non-success status,
\* envelope without text, unparseable text, non-array payload), the run ends
\* with a non-empty error message and testCases, impacts and
\* regressionTestSuggestions are the values stage 1 stored.
C3_Stage2FailureKeepsStage1 ==
    [][ \A i \in RunIds :
          (Leaves2(i) /\ (\/ TransportFailed(runs'[i].r2)
                          \/ MissingText(runs'[i].r2)
                          \/ Unparseable(runs'[i].r2)
                          \/ NotAnArray(runs'[i].r2))) =>
            /\ runs'[i].pc = "Errored"
            /\ errorMessage' \notin {""} \cup PdfMessages
            /\ <<testCases', impacts', regressionTestSuggestions'>>
                 = StageOneValues(runs'[i].r1)
            /\ <<testCases', impacts', regressionTestSuggestions'>>
                 = <<testCases, impacts, regressionTestSuggestions>> ]_vars

C3_Witness ==
    \E i \in RunIds :
        /\ runs[i].pc = "Errored"
        /\ TransportFailed(runs[i].r2)
        /\ errorMessage = MsgGeneral(HttpError(500, "", Fallback2))
        /\ testCases.t = "arr" /\ Len(testCases.l) = MaxCases
        /\ impacts = Str(<<"i">>)
        /\ regressionTestSuggestions = Str(<<"r">>)

\* C4: when the second call succeeds at transport level and its text parses to
\* something that is not an array, the run reports the not-an-array error and
\* regressionGherkinTestCases stays null.
C4_NonArrayRejected ==
    [][ \A i \in RunIds :
          (Leaves2(i) /\ NotAnArray(runs'[i].r2)) =>
            /\ errorMessage' = MsgNotArray2
            /\ regressionGherkinTestCases' = Null
            /\ runs'[i].pc = "Errored" ]_vars

C4_Witness ==
    \E i \in RunIds :
        /\ runs[i].r2 = [kind |-> "text", parsed |-> [t |-> "obj"]]
        /\ runs[i].pc = "Errored"
        /\ errorMessage = MsgNotArray2
        /\ regressionGherkinTestCases = Null

\* C5: when the first call fails (rejected fetch, non-success status, envelope
\* without text, unparseable text) the run stops in Errored with an error
\* message in that very step, and no second call is ever issued by that run.
C5_Stage1FailureStops ==
    /\ [][ \A i \in RunIds :
             (Leaves1(i) /\ (\/ TransportFailed(runs'[i].r1)
                             \/ MissingText(runs'[i].r1)
                             \/ Unparseable(runs'[i].r1))) =>
               /\ runs'[i].pc = "Errored"
               /\ errorMessage' \notin {""} \cup PdfMessages
               /\ ~isLoading' ]_vars
    /\ [](\A i \in RunIds :
             (\/ TransportFailed(runs[i].r1)
              \/ MissingText(runs[i].r1)
              \/ Unparseable(runs[i].r1)) =>
               /\ runs[i].pc = "Errored"
               /\ runs[i].calls2 = 0
               /\ runs[i].pending = {})

C5_Witness ==
    \E i \in RunIds :
        /\ MissingText(runs[i].r1)
        /\ runs[i].pc = "Errored"
        /\ runs[i].calls1 = 1 /\ runs[i].calls2 = 0
        /\ errorMessage = MsgEmpty1

\* C6: a run that is in Errored and has issued no second call shows no result:
\* testCases null, impacts empty, regressionTestSuggestions empty,
\* regressionGherkinTestCases null.
C6_NoPartialDataAfterStage1Failure ==
    \A i \in RunIds :
        (i = Len(runs) /\ runs[i].pc = "Errored" /\ runs[i].calls2 = 0) => NoResults

\* C7: every run that waits for a generation call eventually is in a terminal
\* state with isLoading false, given that issued calls eventually settle.
C7_RunTerminates ==
    (\E i \in RunIds : runs[i].pc \in Awaiting)
        ~> ((\A i \in RunIds : runs[i].pc \in Terminal) /\ ~isLoading)

C7_Witness ==
    \E i \in RunIds :
        /\ runs[i].pc = "Errored"
        /\ runs[i].r2 = [kind |-> "reject"]
        /\ runs[i].calls2 = 1
        /\ ~isLoading

\* C8: at most one invocation of handleAnalyze waits for a call at any time; it
\* is the most recent one, and while it waits the analyze button cannot start
\* another, so every response is handled by the latest run.
C8_SingleRunInFlight ==
    LET active == {i \in RunIds : runs[i].pc \in Awaiting}
    IN  /\ Cardinality(active) <= 1
        /\ active # {} => /\ active = {Len(runs)}
                          /\ isLoading
                          /\ ~ENABLED Analyze

C8_Witness ==
    /\ Len(runs) = 1
    /\ runs[1].pc = "await2"
    /\ isLoading
    /\ trim(jiraLink) # <<>> /\ trim(jiraContent) # <<>>

\* C9: in every state regressionGherkinTestCases is non-null only if
\* regressionTestSuggestions is a string that is non-empty after trimming.
C9_RegressionNeedsSuggestions ==
    regressionGherkinTestCases # Null =>
        /\ regressionTestSuggestions.t = "str"
        /\ trim(regressionTestSuggestions.s) # <<>>

C9_Witness ==
    /\ regressionGherkinTestCases.t = "arr"
    /\ Len(regressionGherkinTestCases.l) = MaxCases
    /\ regressionTestSuggestions = Str(<<"r">>)

\* C10: a run issues at most one first call and at most one second call, has
\* at most one call outstanding, and has issued the second call only after the
\* first response was received and its three results were stored.
C10_NoRetrySequential ==
    \A i \in RunIds :
        /\ runs[i].calls1 <= 1
        /\ runs[i].calls2 <= 1
        /\ Cardinality(runs[i].pending) <= 1
        /\ runs[i].calls2 = 1 =>
              /\ 1 \notin runs[i].pending
              /\ Stored1(runs[i].r1)
        /\ 2 \in runs[i].pending =>
              <<testCases, impacts, regressionTestSuggestions>>
                  = StageOneValues(runs[i].r1)

C10_Witness ==
    \E i \in RunIds :
        /\ runs[i].pending = {2}
        /\ runs[i].calls1 = 1 /\ runs[i].calls2 = 1
        /\ runs[i].r1.kind = "text"
        /\ testCases.t = "arr"

\* C11: every click on the analyze button, whether its input checks pass or
\* fail, leaves testCases, impacts, regressionTestSuggestions and
\* regressionGherkinTestCases empty and leaves in the error slot nothing but the
\* message of this click's own failed check.
C11_TriggerStartsEmpty ==
    [][ Analyze =>
          /\ testCases' = Null
          /\ impacts' = Str(<<>>)
          /\ regressionTestSuggestions' = Str(<<>>)
          /\ regressionGherkinTestCases' = Null
          /\ errorMessage' =
               (IF trim(jiraLink) = <<>> THEN MsgLinkMissing
                ELSE IF trim(jiraContent) = <<>> THEN MsgDescMissing
                ELSE "") ]_vars

C11_Witness ==
    /\ runs # <<>>
    /\ runs[Len(runs)].pc = "await1"
    /\ runs[Len(runs)].r1 = NoResponse
    /\ NoResults
    /\ errorMessage = ""
    /\ isLoading


\* ------------------------------------------------- sortTestCasesByPriority
\* Specification of the sort alone: one call on any list of up to MaxSortLen
\* records, in either engine.
MaxSortLen == 3

SortLabels ==
    {"Alta", "High", "Media", "Medium", "Baja", "Low", "", "alta", "undefined",
     "constructor"}

RECURSIVE LabelledLists(_, _)
LabelledLists(labels, n) ==
    IF n = 0 THEN {<<>>}
    ELSE LET shorter == LabelledLists(labels, n - 1)
         IN shorter \cup
            {Append(l, [id |-> n, priority |-> p]) :
                l \in {x \in shorter : Len(x) = n - 1}, p \in labels}

SortInputs == LabelledLists(SortLabels, MaxSortLen)

SortInit ==
    /\ AppInit
    /\ call \in {[fn |-> "sort", done |-> FALSE, cases |-> l, ranks |-> <<>>,
                  engine |-> "none", ret |-> <<>>] : l \in SortInputs}

\* ranks holds what priorityOrder[x.priority] || 4 gives for each record; cases
\* is the caller's list, which the sort of the copy leaves as it was
SortCall ==
    /\ call.fn = "sort" /\ ~call.done
    /\ \E engine \in SortEngines :
         call' = [call EXCEPT
                    !.done = TRUE,
                    !.engine = engine,
                    !.ranks = [i \in 1..Len(call.cases) |->
                                  priorityOrder(call.cases[i].priority)],
                    !.ret = ArraySort(engine, call.cases)]
    /\ UNCHANGED appVars

SortNext == SortCall

SortSpec == SortInit /\ [][SortNext]_vars

Sorted == call.fn = "sort" /\ call.done

\* the rank table as documented: 1 to 3 for the six labels, 4 for all others
DocumentedRank(label) ==
    CASE label \in {"Alta", "High"} -> 1
      [] label \in {"Media", "Medium"} -> 2
      [] label \in {"Baja", "Low"} -> 3
      [] OTHER -> 4

\* C12: the rank the sort uses for a record is 1 for Alta and High, 2 for Media
\* and Medium, 3 for Baja and Low, and 4 for every other label, the empty
\* string, a differently-cased variant and a missing field included.
C12_RankTable ==
    Sorted =>
        \A i \in 1..Len(call.cases) :
            call.ranks[i] =
                [num |-> TRUE, n |-> DocumentedRank(call.cases[i].priority)]

C14_PermutationInRankOrder ==
    [][ SortCall =>
          /\ Len(call'.ret) = Len(call.cases)
          /\ \A i \in 1..Len(call.cases) :
                 \E j \in 1..Len(call'.ret) : call'.ret[j] = call.cases[i]
          /\ \A x, y \in 1..Len(call'.ret) :
                 x < y => DocumentedRank(call'.ret[x].priority)
                              <= DocumentedRank(call'.ret[y].priority)
          /\ call'.cases = call.cases ]_vars


\* -------------------------------------------------------- getJiraIdFromUrl
\* Specification of the identifier extraction alone: one call on a text that
\* is not a URL or on a URL with a path of up to MaxSegments segments.
MaxSegments == 3

SegmentNames == {"browse", "ticket", "x", "y", "PROJ-123"}

RECURSIVE Paths(_)
Paths(n) ==
    IF n = 0 THEN {<<>>}
    ELSE LET shorter == Paths(n - 1)
         IN shorter \cup
            {p \o <<"/">> \o seg :
                p \in shorter, seg \in {<<>>} \cup {<<x>> : x \in SegmentNames}}

Queries == {<<>>, <<"?", "/", "browse", "/", "y">>}

NotUrls ==
    {<<>>, <<"u">>, <<"not", " ", "a", " ", "url">>, <<"https:", "//">>,
     <<"h", "/", "browse", "/", "PROJ-123">>, <<"//", "h", "/", "ticket", "/", "x">>,
     <<"https:", "//", " ", "h", "/", "x">>}

UrlInputs ==
    NotUrls \cup
    {<<"https:", "//", "h">> \o p \o q : p \in Paths(MaxSegments), q \in Queries}

UrlInit ==
    /\ AppInit
    /\ call \in {[fn |-> "url", done |-> FALSE, url |-> u, ret |-> <<>>] :
                    u \in UrlInputs}

UrlCall ==
    /\ call.fn = "url" /\ ~call.done
    /\ call' = [call EXCEPT !.done = TRUE, !.ret = getJiraIdFromUrl(call.url)]
    /\ UNCHANGED appVars

UrlNext == UrlCall

UrlSpec == UrlInit /\ [][UrlNext]_vars

Extracted == call.fn = "url" /\ call.done

\* the segments of the link's path, for a link that parses
Segments == split(pathname(call.url))
Markers == {i \in 1..Len(Segments) : IsIdMarker(Segments[i])}
FirstMarker == CHOOSE i \in Markers : \A j \in Markers : i <= j

\* C15: the extraction returns the empty string for a text that does not parse
\* as a URL; otherwise the segment after the first browse or ticket segment
\* when there is one (an empty segment counts), otherwise the last segment.
\* https://h/browse/PROJ-123 gives PROJ-123, https://h/x/y gives y, and
\* 'not a url' gives the empty string.
C15_ExtractsIdentifier ==
    Extracted =>
        /\ ~ParsesAsUrl(call.url) => call.ret = <<>>
        /\ (ParsesAsUrl(call.url) /\ Markers # {} /\ FirstMarker < Len(Segments))
               => call.ret = Segments[FirstMarker + 1]
        /\ (ParsesAsUrl(call.url) /\ (Markers = {} \/ FirstMarker = Len(Segments)))
               => call.ret = Segments[Len(Segments)]
        /\ call.url = <<"https:", "//", "h", "/", "browse", "/", "PROJ-123">>
               => call.ret = <<"PROJ-123">>
        /\ call.url = <<"https:", "//", "h", "/", "x", "/", "y">>
               => call.ret = <<"y">>
        /\ call.url = <<"not", " ", "a", " ", "url">> => call.ret = <<>>

C15_Witness ==
    /\ Extracted
    /\ call.url = <<"https:", "//", "h", "/", "ticket", "/", "x", "/", "browse">>
    /\ call.ret = <<"x">>


\* --------------------------------------------------------------- escapeCsv
\* Texts are sequences of characters; a literal of the program that holds no
\* comma, quote or line break is written as one element.
MaxTextLen == 3

Quote == "\""

\* String(text)
String(text) == IF text.t = "num" THEN <<ToString(text.n)>> ELSE text.s

\* .replace(/"/g, '""')
RECURSIVE replaceQuotes(_)
replaceQuotes(s) ==
    IF s = <<>> THEN <<>>
    ELSE (IF Head(s) = Quote THEN <<Quote, Quote>> ELSE <<Head(s)>>)
            \o replaceQuotes(Tail(s))

\* .replace(/\n/g, ' ')
RECURSIVE replaceNewlines(_)
replaceNewlines(s) ==
    IF s = <<>> THEN <<>>
    ELSE <<IF Head(s) = "\n" THEN " " ELSE Head(s)>> \o replaceNewlines(Tail(s))

includes(s, c) == \E i \in 1..Len(s) : s[i] = c

escapeCsv(text) ==
    IF text.t \in {"null", "undef"} THEN <<>>
    ELSE LET escapedText == replaceNewlines(replaceQuotes(String(text)))
         IN  IF includes(escapedText, ",") \/ includes(escapedText, Quote)
             THEN <<Quote>> \o escapedText \o <<Quote>>
             ELSE escapedText

\* Specification of escapeCsv alone: one call on null, undefined, a number or
\* any text of up to MaxTextLen characters.
Characters == {"a", ",", Quote, "\n", "\r"}

RECURSIVE TextsUpTo(_)
TextsUpTo(n) ==
    IF n = 0 THEN {<<>>}
    ELSE LET shorter == TextsUpTo(n - 1)
         IN shorter \cup
            {Append(t, c) : t \in {x \in shorter : Len(x) = n - 1}, c \in Characters}

EscapeInputs == {Null, Undef, Num(5)} \cup {Str(t) : t \in TextsUpTo(MaxTextLen)}

EscapeInit ==
    /\ AppInit
    /\ call \in {[fn |-> "escape", done |-> FALSE, text |-> v, ret |-> <<>>] :
                    v \in EscapeInputs}

EscapeCall ==
    /\ call.fn = "escape" /\ ~call.done
    /\ call' = [call EXCEPT !.done = TRUE, !.ret = escapeCsv(call.text)]
    /\ UNCHANGED appVars

EscapeNext == EscapeCall

EscapeSpec == EscapeInit /\ [][EscapeNext]_vars

Escaped == call.fn = "escape" /\ call.done

LineBreaks == {"\n", "\r"}

\* the text with each quote doubled and each line feed turned into a space
RECURSIVE Flattened(_)
Flattened(s) ==
    IF s = <<>> THEN <<>>
    ELSE (CASE Head(s) = Quote -> <<Quote, Quote>>
            [] Head(s) = "\n" -> <<" ">>
            [] OTHER -> <<Head(s)>>) \o Flattened(Tail(s))

\* C17: escapeCsv gives the empty string for null and undefined; for a text it
\* doubles each quote, turns each line break into one space and wraps the
\* result in quotes exactly when it holds a comma or a quote; its output never
\* holds a line break.
C17_EscapeRule ==
    Escaped =>
        /\ call.text \in {Null, Undef} => call.ret = <<>>
        /\ (call.text.t = "str" /\ ~includes(call.text.s, "\r")) =>
               LET flat == Flattened(call.text.s)
                   wrapped == includes(flat, ",") \/ includes(flat, Quote)
               IN  call.ret = IF wrapped THEN <<Quote>> \o flat \o <<Quote>>
                              ELSE flat
        /\ \A i \in 1..Len(call.ret) : call.ret[i] \notin LineBreaks


\* ------------------------------------------------ formatContentForCsvExport
headers ==
    <<"ID de Jira", "Caracteristica", "Escenario", "Prioridad", "Dado", "Cuando",
      "Entonces">>

MarkerMain == "--- Casos de Prueba Principales ---"
MarkerRegression == "--- Casos de Prueba de Regresion ---"
MarkerImpacts == "--- Impactos Sugeridos ---"
MarkerSuggestions == "--- Sugerencias de Pruebas de Regresion (Texto) ---"

\* fields.join(',')
RECURSIVE join(_)
join(fields) ==
    IF fields = <<>> THEN <<>>
    ELSE IF Len(fields) = 1 THEN Head(fields)
    ELSE Head(fields) \o <<",">> \o join(Tail(fields))

\* one row per record: the seven fields escaped, joined, and a line feed
RECURSIVE addTestCasesToCsv(_)
addTestCasesToCsv(cases) ==
    IF cases = <<>> THEN <<>>
    ELSE LET tc == Head(cases)
             row == <<escapeCsv(tc.jiraId), escapeCsv(tc.feature),
                      escapeCsv(tc.scenario), escapeCsv(tc.priority),
                      escapeCsv(tc.given), escapeCsv(tc.when), escapeCsv(tc.then)>>
         IN  join(row) \o <<"\n">> \o addTestCasesToCsv(Tail(cases))

\* cases && cases.length > 0
NonEmptyList(cases) == cases.t = "arr" /\ Len(cases.l) > 0

\* '\n"marker"\n'
MarkerLine(marker) == <<"\n", Quote, marker, Quote, "\n">>

\* the text blocks are put between quotes after escapeCsv has already done so
formatContentForCsvExport ==
    join([i \in 1..Len(headers) |-> <<Quote, headers[i], Quote>>]) \o <<"\n">>
    \o (IF NonEmptyList(testCases)
        THEN MarkerLine(MarkerMain) \o addTestCasesToCsv(testCases.l) ELSE <<>>)
    \o (IF NonEmptyList(regressionGherkinTestCases)
        THEN MarkerLine(MarkerRegression)
                 \o addTestCasesToCsv(regressionGherkinTestCases.l)
        ELSE <<>>)
    \o (IF Truthy(impacts)
        THEN MarkerLine(MarkerImpacts)
                 \o <<Quote>> \o escapeCsv(impacts) \o <<Quote, "\n">>
        ELSE <<>>)
    \o (IF Truthy(regressionTestSuggestions)
        THEN MarkerLine(MarkerSuggestions)
                 \o <<Quote>> \o escapeCsv(regressionTestSuggestions) \o <<Quote, "\n">>
        ELSE <<>>)

\* the export button is rendered only when there is something to export
ExportEnabled ==
    \/ NonEmptyList(testCases)
    \/ NonEmptyList(regressionGherkinTestCases)
    \/ Truthy(impacts)
    \/ Truthy(regressionTestSuggestions)

\* Specification of the export alone: the results of a finished run are on
\* screen and the export button is pressed once.
Scenario(feature, scenario) ==
    [jiraId |-> Str(<<"P-1">>), feature |-> feature, scenario |-> scenario,
     priority |-> Str(<<"Alta">>), given |-> Str(<<"g">>), when |-> Str(<<"w">>),
     then |-> Undef]

ExportedCases ==
    {Null, Arr(<<>>)}
        \cup {Arr(<<Scenario(Str(t), Str(<<"s">>))>>) : t \in TextsUpTo(MaxTextLen)}
        \cup {Arr(<<Scenario(Str(<<"f">>), Str(<<"s">>)),
                    Scenario(Str(<<"f">>), Str(<<"s", ",", "t">>))>>)}

ExportedRegression == {Null, Arr(<<Scenario(Str(<<"Regresion">>), Str(<<"r">>))>>)}

ExportedImpacts ==
    {Str(<<>>), Str(<<"i">>), Str(<<"i", "\n", "j">>), Str(<<"i", ",", "j">>), Num(5)}

ExportedSuggestions == {Str(<<>>), Str(<<"r">>)}

CsvInit ==
    /\ jiraLink = <<"u">>
    /\ jiraContent = <<"d">>
    /\ testCases \in ExportedCases
    /\ impacts \in ExportedImpacts
    /\ regressionTestSuggestions \in ExportedSuggestions
    /\ regressionGherkinTestCases \in ExportedRegression
    /\ isLoading = FALSE
    /\ isPdfLoading = FALSE
    /\ errorMessage = ""
    /\ runs = <<>>
    /\ call = [fn |-> "export", done |-> FALSE, content |-> <<>>]

\* handleExport: the formatted text becomes the content of the downloaded file
handleExport ==
    /\ call.fn = "export" /\ ~call.done
    /\ ExportEnabled
    /\ call' = [call EXCEPT !.done = TRUE, !.content = formatContentForCsvExport]
    /\ UNCHANGED appVars

CsvNext == handleExport

CsvSpec == CsvInit /\ [][CsvNext]_vars

Exported == call.fn = "export" /\ call.done

\* Reading delimited text by the standard rules: a character is inside a
\* quoted field when an odd number of quotes precedes it; a comma outside
\* quotes ends a field and a line feed outside quotes ends a record; a field
\* written between quotes stands for its inside with doubled quotes undoubled.
Outside(s, i) == Cardinality({j \in 1..(i - 1) : s[j] = Quote}) % 2 = 0

Breaks(s, c) == {i \in 1..Len(s) : s[i] = c /\ Outside(s, i)}

\* the stretches of s from position from to position to between the cuts
RECURSIVE Pieces(_, _, _, _)
Pieces(s, cuts, from, to) ==
    LET ahead == {k \in cuts : from <= k /\ k <= to}
    IN  IF ahead = {} THEN <<[from |-> from, to |-> to]>>
        ELSE LET k == CHOOSE x \in ahead : \A y \in ahead : x <= y
             IN  <<[from |-> from, to |-> k - 1]>> \o Pieces(s, cuts, k + 1, to)

RECURSIVE Undoubled(_)
Undoubled(s) ==
    IF s = <<>> THEN <<>>
    ELSE IF Len(s) >= 2 /\ s[1] = Quote /\ s[2] = Quote
         THEN <<Quote>> \o Undoubled(SubSeq(s, 3, Len(s)))
         ELSE <<Head(s)>> \o Undoubled(Tail(s))

Unquoted(raw) ==
    IF Len(raw) >= 2 /\ raw[1] = Quote /\ raw[Len(raw)] = Quote
    THEN Undoubled(SubSeq(raw, 2, Len(raw) - 1))
    ELSE raw

ReadCsv(s) ==
    LET lines == Pieces(s, Breaks(s, "\n"), 1, Len(s))
        Fields(line) ==
            LET cells == Pieces(s, Breaks(s, ","), line.from, line.to)
            IN  [i \in 1..Len(cells) |-> Unquoted(SubSeq(s, cells[i].from, cells[i].to))]
    IN  [i \in 1..Len(lines) |-> Fields(lines[i])]

\* the records read from the text, blank lines left out
Records(text) == SelectSeq(ReadCsv(text), LAMBDA rec : rec # << <<>> >>)

\* a field value as the export is to give it back: line feeds as spaces
RECURSIVE Spaced(_)
Spaced(s) ==
    IF s = <<>> THEN <<>>
    ELSE <<IF Head(s) = "\n" THEN " " ELSE Head(s)>> \o Spaced(Tail(s))

Value(v) == IF v.t \in {"null", "undef"} THEN <<>> ELSE Spaced(String(v))

RowOf(tc) ==
    <<Value(tc.jiraId), Value(tc.feature), Value(tc.scenario), Value(tc.priority),
      Value(tc.given), Value(tc.when), Value(tc.then)>>

RowsOf(cases) == [i \in 1..Len(cases) |-> RowOf(cases[i])]

ExpectedRecords ==
    << [i \in 1..Len(headers) |-> <<headers[i]>>] >>
    \o (IF NonEmptyList(testCases)
        THEN << <<<<MarkerMain>>>> >> \o RowsOf(testCases.l) ELSE <<>>)
    \o (IF NonEmptyList(regressionGherkinTestCases)
        THEN << <<<<MarkerRegression>>>> >> \o RowsOf(regressionGherkinTestCases.l)
        ELSE <<>>)
    \o (IF Truthy(impacts)
        THEN << <<<<MarkerImpacts>>>>, <<Value(impacts)>> >> ELSE <<>>)
    \o (IF Truthy(regressionTestSuggestions)
        THEN << <<<<MarkerSuggestions>>>>, <<Value(regressionTestSuggestions)>> >>
        ELSE <<>>)

\* C16: reading the exported text by the standard rules of delimited text gives
\* back every field of every scenario row and the impact and suggestion
\* blocks, with line breaks turned into single spaces.
C16_ExportRoundTrip ==
    Exported => Records(call.content) = ExpectedRecords


\* ------------------------------------------------- claims on handleAnalyze
\* C18: when a generation call (first or second) returns a non-success HTTP
\* status, the message shown carries that status with the message of the
\* service, or with the generic fallback text when the body has no message.
C18_HttpStatusReported ==
    [][ \A i \in RunIds :
          /\ (Leaves1(i) /\ runs'[i].r1.kind = "http") =>
                errorMessage' =
                    MsgGeneral(HttpError(runs'[i].r1.status, runs'[i].r1.message,
                                         Fallback1))
          /\ (Leaves2(i) /\ runs'[i].r2.kind = "http") =>
                errorMessage' =
                    MsgGeneral(HttpError(runs'[i].r2.status, runs'[i].r2.message,
                                         Fallback2)) ]_vars

\* a first payload that parses but is not the declared object: an array or a
\* scalar, or an object whose testCases is not an array
SchemaMismatch(r) ==
    /\ r.kind = "text"
    /\ \/ r.parsed.t \in {"null", "other"}
       \/ r.parsed.t = "obj" /\ r.parsed.testCases.t \notin {"undef", "arr"}

\* C19: a first payload that parses as JSON but does not match the declared
\* schema is reported as a failure: the run ends with an error message and
\* does not reach Complete.
C19_SchemaMismatchFails ==
    [][ \A i \in RunIds :
          (Leaves1(i) /\ SchemaMismatch(runs'[i].r1)) =>
            /\ runs'[i].pc = "Errored"
            /\ errorMessage' \notin {""} \cup PdfMessages ]_vars

\* C20: a run issues a network call only if its link parses as a URL.
C20_CallsNeedValidUrl ==
    \A i \in RunIds : runs[i].calls1 > 0 => ParsesAsUrl(runs[i].link)


\* C21: in every reachable state every record of testCases and of
\* regressionGherkinTestCases with a non-empty scenario has a scenario that
\* begins with 'Validar ', whatever the generation endpoint returned.
C21_ScenariosPrefixed ==
    \A list \in {testCases, regressionGherkinTestCases} :
        list.t = "arr" =>
            \A i \in 1..Len(list.l) :
                list.l[i].scenario # <<>> =>
                    Head(list.l[i].scenario) = ScenarioPrefix


\* C22: a finished run tells 'the second stage ran and gave no items' from
\* 'the second stage never ran': after a second response that is an empty
\* array regressionGherkinTestCases is the empty list, and it is null whenever
\* the second call was skipped or failed.
C22_EmptyDistinctFromAbsent ==
    \A i \in RunIds :
        runs[i].pc \in Terminal =>
            /\ (runs[i].r2.kind = "text" /\ runs[i].r2.parsed = Arr(<<>>)) =>
                  /\ runs[i].pc = "Complete"
                  /\ regressionGherkinTestCases = Arr(<<>>)
            /\ (\/ runs[i].calls2 = 0
                \/ TransportFailed(runs[i].r2)
                \/ MissingText(runs[i].r2)
                \/ Unparseable(runs[i].r2)
                \/ NotAnArray(runs[i].r2)) =>
                  regressionGherkinTestCases = Null

C22_Witness ==
    \E i \in RunIds :
        /\ runs[i].pc = "Complete"
        /\ runs[i].calls2 = 1
        /\ runs[i].r2 = [kind |-> "text", parsed |-> Arr(<<>>)]
        /\ regressionGherkinTestCases = Arr(<<>>)
        /\ regressionTestSuggestions = Str(<<"r">>)


\* C23: isLoading is true exactly while a run waits for one of its two calls.
\* It becomes true only in a click whose two input checks pass, stays true
\* from the first call to the end of the second, and is false in every
\* finished run, however it ended, and after every failed input check.
C23_LoadingWhileInFlight ==
    /\ [](isLoading <=> \E i \in RunIds : runs[i].pc \in Awaiting)
    /\ [](\A i \in RunIds :
             (i = Len(runs) /\ runs[i].pc \in Terminal) => ~isLoading)
    /\ [][ (~isLoading /\ isLoading') =>
             /\ Analyze
             /\ ValidationError(jiraLink, jiraContent) = "" ]_vars
    /\ [][ (Analyze /\ ValidationError(jiraLink, jiraContent) # "") =>
             ~isLoading' ]_vars
    /\ [][ \A i \in RunIds :
             (Leaves1(i) /\ runs'[i].pc = "await2") => isLoading' ]_vars

C23_Witness ==
    \E i \in RunIds :
        /\ runs[i].pc = "Errored"
        /\ runs[i].r1.kind = "text"
        /\ runs[i].r1.parsed.t = "syntax"
        /\ ~isLoading
        /\ errorMessage = MsgParse1("SyntaxError")


\* C24: a PDF import, however it interleaves with an analysis run, never
\* changes testCases, impacts, regressionTestSuggestions,
\* regressionGherkinTestCases, jiraLink or isLoading; it writes only
\* jiraContent, errorMessage and isPdfLoading, and a refused non-PDF file
\* changes only errorMessage.
C24_PdfImportFrame ==
    /\ [][ (PdfUpload \/ PdfDone) =>
             UNCHANGED <<testCases, impacts, regressionTestSuggestions,
                         regressionGherkinTestCases, jiraLink, isLoading, runs>> ]_vars
    /\ [][ (PdfUpload /\ ~isPdfLoading') =>
             /\ errorMessage' = MsgPdfInvalid
             /\ UNCHANGED <<jiraContent, isPdfLoading>> ]_vars

C24_Witness ==
    /\ isPdfLoading
    /\ jiraContent = <<>>
    /\ \E i \in RunIds : runs[i].pc = "await2"
    /\ isLoading
    /\ testCases.t = "arr" /\ Len(testCases.l) = MaxCases

====
